---- MODULE Spec2Model ----
(***************************************************************************)
(* Model of tracing-subscriber/src/filter/directive.rs: filter directives, *)
(* their ordering, the ordered DirectiveSet with its running max_level,    *)
(* static and dynamic matching, the call-site and span matchers, and the   *)
(* directive parser.                                                       *)
(*                                                                         *)
(* Option<T> is a sequence of length 0 (None) or 1 (Some).  A string is a  *)
(* sequence of character codes.  A BTreeSet is the sequence of its members *)
(* in ascending order of the element type's Ord.                           *)
(***************************************************************************)
EXTENDS Integers, Sequences, FiniteSets, TLC

VARIABLES kind, set, nops, res, sm, inp

vars == <<kind, set, nops, res, sm, inp>>

\* ------------------------------------------------------------------ bounds
MaxOps == 2
MaxInput == 3

\* ------------------------------------------------------------------ levels
OFF == 0
ERROR == 1
WARN == 2
INFO == 3
DEBUG == 4
TRACE == 5

LevelFilters == {OFF, ERROR, WARN, INFO, DEBUG, TRACE}
MetaLevels == {ERROR, WARN, INFO, DEBUG, TRACE}

\* ------------------------------------------------------------------ Option
None == <<>>
Some(x) == <<x>>
IsSome(o) == Len(o) = 1
Unwrap(o) == o[1]

\* ------------------------------------------------------------------ strings
starts_with(s, p) == Len(p) <= Len(s) /\ SubSeq(s, 1, Len(p)) = p

CmpInt(a, b) == IF a < b THEN "Less" ELSE IF a > b THEN "Greater" ELSE "Equal"

RECURSIVE CmpStr(_, _)
CmpStr(a, b) ==
    IF a = <<>> /\ b = <<>> THEN "Equal"
    ELSE IF a = <<>> THEN "Less"
    ELSE IF b = <<>> THEN "Greater"
    ELSE IF Head(a) # Head(b) THEN CmpInt(Head(a), Head(b))
    ELSE CmpStr(Tail(a), Tail(b))

\* ------------------------------------------------------------------ inputs
\* Targets "a", "b", "aa", "ab", "ba" and no target.
Targets == {None, Some(<<97>>), Some(<<98>>), Some(<<97, 97>>), Some(<<97, 98>>),
            Some(<<98, 97>>)}
DynTargets == {None, Some(<<97>>)}
SpanNames == {"s", "t"}
InSpans == {None, Some("s")}
FieldNames == {"x", "y"}
FieldX == [name |-> "x", value |-> None]
FieldX1 == [name |-> "x", value |-> Some(1)]
FieldY1 == [name |-> "y", value |-> Some(1)]
FieldLists == {<<>>, <<FieldX>>, <<FieldX1>>, <<FieldX1, FieldY1>>}
DynLevels == {OFF, TRACE}

StaticDirectives == [target : Targets, level : LevelFilters]

Directives == [target : DynTargets, in_span : InSpans, fields : FieldLists,
               level : DynLevels]

StaticMetadata == [target : {<<97, 98>>, <<98, 97>>}, name : {"s"},
                   level : MetaLevels, fields : {{}}]

DynMetadata ==
    {[target |-> <<97, 98>>, name |-> "s", level |-> INFO, fields |-> {"x", "y"}],
     [target |-> <<97, 98>>, name |-> "s", level |-> INFO, fields |-> {"x"}],
     [target |-> <<97, 98>>, name |-> "t", level |-> INFO, fields |-> {}],
     [target |-> <<98, 97>>, name |-> "s", level |-> INFO, fields |-> {"x"}]}

SeqsUpTo(S, n) == UNION {[1..k -> S] : k \in 0..n}

\* ------------------------------------------------------------- Directive
has_name(d) == IsSome(d.in_span)

has_fields(d) == d.fields # <<>>

\* Variant: only field predicates make a directive dynamic.
is_dynamic_fields_only(d) == has_fields(d)

is_dynamic(d) == has_name(d) \/ has_fields(d)

into_static(d) ==
    IF is_dynamic(d) THEN [ok |-> FALSE, val |-> d]
    ELSE [ok |-> TRUE, val |-> [target |-> d.target, level |-> d.level]]

DirectiveDefault == [level |-> OFF, target |-> None, in_span |-> None, fields |-> <<>>]

CmpOptLen(a, b) ==
    IF IsSome(a) /\ IsSome(b) THEN CmpInt(Len(Unwrap(a)), Len(Unwrap(b)))
    ELSE IF IsSome(a) THEN "Greater"
    ELSE IF IsSome(b) THEN "Less"
    ELSE "Equal"

\* Variant: the field count is compared before the span-name filter.
DirectiveCmp_fields_first(a, b) ==
    IF Len(a.fields) # Len(b.fields) THEN CmpInt(Len(a.fields), Len(b.fields))
    ELSE IF has_name(a) /\ ~has_name(b) THEN "Greater"
    ELSE IF ~has_name(a) /\ has_name(b) THEN "Less"
    ELSE CmpOptLen(a.target, b.target)

DirectiveCmp(a, b) ==
    IF has_name(a) /\ ~has_name(b) THEN "Greater"
    ELSE IF ~has_name(a) /\ has_name(b) THEN "Less"
    ELSE IF Len(a.fields) # Len(b.fields) THEN CmpInt(Len(a.fields), Len(b.fields))
    ELSE CmpOptLen(a.target, b.target)

DirectiveCaresAbout(d, meta) ==
    IF IsSome(d.target) /\ ~starts_with(meta.target, Unwrap(d.target)) THEN FALSE
    ELSE IF IsSome(d.in_span) /\ Unwrap(d.in_span) # meta.name THEN FALSE
    ELSE \A i \in 1..Len(d.fields) : d.fields[i].name \in meta.fields

\* ------------------------------------------------------- StaticDirective
StaticPartialCmp(a, b) == CmpOptLen(a.target, b.target)

CmpOptStr(a, b) ==
    IF IsSome(a) /\ IsSome(b) THEN CmpStr(Unwrap(a), Unwrap(b))
    ELSE IF IsSome(a) THEN "Greater"
    ELSE IF IsSome(b) THEN "Less"
    ELSE "Equal"

StaticCmp(a, b) ==
    IF CmpOptStr(a.target, b.target) # "Equal" THEN CmpOptStr(a.target, b.target)
    ELSE CmpInt(a.level, b.level)

StaticCaresAbout(d, meta) ==
    ~(IsSome(d.target) /\ ~starts_with(meta.target, Unwrap(d.target)))

\* ---------------------------------------------------------- trait dispatch
Cmp(k, a, b) == IF k = "Statics" THEN StaticCmp(a, b) ELSE DirectiveCmp(a, b)

cares_about(k, d, meta) ==
    IF k = "Statics" THEN StaticCaresAbout(d, meta) ELSE DirectiveCaresAbout(d, meta)

\* ---------------------------------------------------------------- BTreeSet
BTreeInsert(k, s, d) ==
    IF \E i \in 1..Len(s) : Cmp(k, s[i], d) = "Equal" THEN s
    ELSE LET n == Cardinality({i \in 1..Len(s) : Cmp(k, s[i], d) = "Less"})
         IN SubSeq(s, 1, n) \o <<d>> \o SubSeq(s, n + 1, Len(s))

Rev(s) == [i \in 1..Len(s) |-> s[Len(s) + 1 - i]]

RECURSIVE Filter(_, _, _)
Filter(k, s, meta) ==
    IF s = <<>> THEN <<>>
    ELSE IF cares_about(k, Head(s), meta)
         THEN <<Head(s)>> \o Filter(k, Tail(s), meta)
         ELSE Filter(k, Tail(s), meta)

\* ------------------------------------------------------------ DirectiveSet
DirectiveSetDefault == [directives |-> <<>>, max_level |-> OFF]

is_empty(ds) == ds.directives = <<>>

\* Variant: the members are walked in ascending order.
directives_for_no_rev(k, ds, meta) == Filter(k, ds.directives, meta)

directives_for(k, ds, meta) == Filter(k, Rev(ds.directives), meta)

RECURSIVE extend(_, _, _)
extend(k, ds, iter) ==
    IF iter = <<>> THEN ds
    ELSE LET d == Head(iter)
             ml == IF d.level > ds.max_level THEN d.level ELSE ds.max_level
         IN extend(k, [directives |-> BTreeInsert(k, ds.directives, d),
                       max_level |-> ml], Tail(iter))

from_iter(k, iter) == extend(k, DirectiveSetDefault, iter)

\* ----------------------------------------------------------------- Statics
RECURSIVE AnyLevelGe(_, _)
AnyLevelGe(s, level) ==
    IF s = <<>> THEN FALSE
    ELSE IF Head(s).level >= level THEN TRUE
    ELSE AnyLevelGe(Tail(s), level)

\* Variant: a directive enables only levels strictly below its own.
RECURSIVE AnyLevelGt(_, _)
AnyLevelGt(s, level) ==
    IF s = <<>> THEN FALSE
    ELSE IF Head(s).level > level THEN TRUE
    ELSE AnyLevelGt(Tail(s), level)

enabled_strict(ds, meta) == AnyLevelGt(directives_for("Statics", ds, meta), meta.level)

enabled(ds, meta) == AnyLevelGe(directives_for("Statics", ds, meta), meta.level)

\* Variant: add inserts without raising max_level.
add_keep_max(ds, directive) ==
    [directives |-> BTreeInsert("Statics", ds.directives, directive),
     max_level |-> ds.max_level]

add(ds, directive) ==
    [directives |-> BTreeInsert("Statics", ds.directives, directive),
     max_level |-> IF directive.level > ds.max_level THEN directive.level
                   ELSE ds.max_level]

\* ------------------------------------------------- Directive::make_tables
\* partition() feeds each directive to one of two BTreeSet<Directive>.
RECURSIVE Partition(_, _, _)
Partition(directives, dyns, stats) ==
    IF directives = <<>> THEN [dyns |-> dyns, stats |-> stats]
    ELSE LET d == Head(directives) IN
         IF is_dynamic(d)
         THEN Partition(Tail(directives), BTreeInsert("Dynamics", dyns, d), stats)
         ELSE Partition(Tail(directives), dyns, BTreeInsert("Dynamics", stats, d))

RECURSIVE FilterMapIntoStatic(_)
FilterMapIntoStatic(s) ==
    IF s = <<>> THEN <<>>
    ELSE IF into_static(Head(s)).ok
         THEN <<into_static(Head(s)).val>> \o FilterMapIntoStatic(Tail(s))
         ELSE FilterMapIntoStatic(Tail(s))

make_tables(directives) ==
    LET p == Partition(directives, <<>>, <<>>)
    IN [dyns |-> from_iter("Dynamics", p.dyns),
        stats |-> from_iter("Statics", FilterMapIntoStatic(p.stats))]

\* ---------------------------------------------------------------- Dynamics
\* FieldMap collected from (field, value) pairs: a later pair with the same
\* field replaces the earlier one.
RECURSIVE CollectFieldMap(_, _, _)
CollectFieldMap(fields, meta, acc) ==
    IF fields = <<>> THEN Some(acc)
    ELSE LET f == Head(fields) IN
         IF f.name \in meta.fields
         THEN IF IsSome(f.value)
              THEN CollectFieldMap(Tail(fields), meta,
                       [n \in DOMAIN acc \cup {f.name} |->
                           IF n = f.name THEN Unwrap(f.value) ELSE acc[n]])
              ELSE CollectFieldMap(Tail(fields), meta, acc)
         ELSE None

EmptyMap == [n \in {} |-> 0]

\* Variant: a directive without field predicates yields no CallsiteMatch.
field_matcher_fieldless_none(d, meta) ==
    LET fields == CollectFieldMap(d.fields, meta, EmptyMap)
    IN IF IsSome(fields) /\ d.fields # <<>>
       THEN Some([fields |-> Unwrap(fields), level |-> d.level])
       ELSE None

field_matcher(d, meta) ==
    LET fields == CollectFieldMap(d.fields, meta, EmptyMap)
    IN IF IsSome(fields)
       THEN Some([fields |-> Unwrap(fields), level |-> d.level])
       ELSE None

RECURSIVE MatcherFold(_, _, _, _)
MatcherFold(ds, meta, field_matches, base_level) ==
    IF ds = <<>> THEN [field_matches |-> field_matches, base_level |-> base_level]
    ELSE LET d == Head(ds)
             f == field_matcher(d, meta)
         IN IF IsSome(f)
            THEN MatcherFold(Tail(ds), meta, Append(field_matches, Unwrap(f)), base_level)
            ELSE IF IsSome(base_level) /\ d.level > Unwrap(base_level)
                 THEN MatcherFold(Tail(ds), meta, field_matches, Some(d.level))
                 ELSE IF ~IsSome(base_level)
                      THEN MatcherFold(Tail(ds), meta, field_matches, Some(d.level))
                      ELSE MatcherFold(Tail(ds), meta, field_matches, base_level)

UnwrapOr(o, dflt) == IF IsSome(o) THEN Unwrap(o) ELSE dflt

matcher(ds, meta) ==
    LET r == MatcherFold(directives_for("Dynamics", ds, meta), meta, <<>>, None)
    IN IF IsSome(r.base_level)
       THEN Some([field_matches |-> r.field_matches,
                  base_level |-> Unwrap(r.base_level)])
       ELSE IF r.field_matches # <<>>
            THEN Some([field_matches |-> r.field_matches,
                       base_level |-> UnwrapOr(r.base_level, OFF)])
            ELSE None

\* ------------------------------------------------- field::SpanMatch (bound)
RecValues == {1, 2}

Records(meta) == UNION {[D -> RecValues] : D \in SUBSET meta.fields}

FieldToSpanMatch(m) ==
    [fields |-> [n \in DOMAIN m.fields |-> [value |-> m.fields[n], recorded |-> None]],
     level |-> m.level]

FieldRecord(m, rec) ==
    [m EXCEPT !.fields = [n \in DOMAIN m.fields |->
        IF n \in DOMAIN rec THEN [m.fields[n] EXCEPT !.recorded = Some(rec[n])]
        ELSE m.fields[n]]]

is_matched(m) == \A n \in DOMAIN m.fields : m.fields[n].recorded = Some(m.fields[n].value)

\* ------------------------------------------- CallsiteMatcher / SpanMatcher
to_span_match(cm, attrs) ==
    [field_matches |-> [i \in 1..Len(cm.field_matches) |->
                           FieldRecord(FieldToSpanMatch(cm.field_matches[i]), attrs)],
     base_level |-> cm.base_level]

SetMax(S) == CHOOSE x \in S : \A y \in S : y <= x

level(m) ==
    LET ls == {m.field_matches[i].level : i \in
                  {j \in 1..Len(m.field_matches) : is_matched(m.field_matches[j])}}
    IN IF ls = {} THEN m.base_level ELSE SetMax(ls)

record_update(m, record) ==
    [m EXCEPT !.field_matches = [i \in 1..Len(m.field_matches) |->
                                    FieldRecord(m.field_matches[i], record)]]

\* ------------------------------------------------------------- operations
\* One DirectiveSet<T> is followed, T = StaticDirective or T = Directive.  A set
\* is built first and consulted afterwards; an insertion discards the last
\* query result, so building before consulting reaches the same sets.
NoRes == [op |-> "none"]

Inputs(k) == IF k = "Statics" THEN StaticDirectives ELSE Directives

Metas(k) == IF k = "Statics" THEN StaticMetadata ELSE DynMetadata

Init ==
    /\ kind \in {"Statics", "Dynamics"}
    /\ set = DirectiveSetDefault
    /\ nops = 0
    /\ res = NoRes
    /\ sm = None
    /\ inp = None

Add ==
    /\ kind = "Statics"
    /\ res = NoRes
    /\ nops < MaxOps
    /\ \E d \in StaticDirectives : set' = add(set, d)
    /\ nops' = nops + 1
    /\ res' = NoRes
    /\ sm' = None
    /\ UNCHANGED <<kind, inp>>

Extend ==
    /\ res = NoRes
    /\ \E n \in 1..(MaxOps - nops) : \E iter \in [1..n -> Inputs(kind)] :
          /\ set' = extend(kind, set, iter)
          /\ nops' = nops + n
    /\ res' = NoRes
    /\ sm' = None
    /\ UNCHANGED <<kind, inp>>

FromIter ==
    /\ res = NoRes
    /\ nops = 0
    /\ \E n \in 1..MaxOps : \E iter \in [1..n -> Inputs(kind)] :
          /\ set' = from_iter(kind, iter)
          /\ nops' = n
    /\ res' = NoRes
    /\ sm' = None
    /\ UNCHANGED <<kind, inp>>

DirectivesFor ==
    /\ \E meta \in Metas(kind) :
          res' = [op |-> "directives_for", meta |-> meta,
                  val |-> directives_for(kind, set, meta)]
    /\ sm' = None
    /\ UNCHANGED <<kind, set, nops, inp>>

Enabled ==
    /\ kind = "Statics"
    /\ \E meta \in StaticMetadata :
          res' = [op |-> "enabled", meta |-> meta, val |-> enabled(set, meta)]
    /\ sm' = None
    /\ UNCHANGED <<kind, set, nops, inp>>

Matcher ==
    /\ kind = "Dynamics"
    /\ \E meta \in DynMetadata :
          res' = [op |-> "matcher", meta |-> meta, val |-> matcher(set, meta)]
    /\ sm' = None
    /\ UNCHANGED <<kind, set, nops, inp>>

ToSpanMatch ==
    /\ res.op = "matcher"
    /\ sm = None
    /\ IsSome(res.val)
    /\ \E attrs \in Records(res.meta) :
          sm' = Some([m |-> to_span_match(Unwrap(res.val), attrs), lvl |-> None])
    /\ UNCHANGED <<kind, set, nops, res, inp>>

RecordUpdate ==
    /\ IsSome(sm)
    /\ \E record \in Records(res.meta) :
          sm' = Some([m |-> record_update(Unwrap(sm).m, record), lvl |-> None])
    /\ UNCHANGED <<kind, set, nops, res, inp>>

Level ==
    /\ IsSome(sm)
    /\ sm' = Some([Unwrap(sm) EXCEPT !.lvl = Some(level(Unwrap(sm).m))])
    /\ UNCHANGED <<kind, set, nops, res, inp>>

Next ==
    \/ Add
    \/ Extend
    \/ FromIter
    \/ DirectivesFor
    \/ Enabled
    \/ Matcher
    \/ ToSpanMatch
    \/ RecordUpdate
    \/ Level

Spec == Init /\ [][Next]_vars

\* ------------------------------------------------------ claim vocabulary
Members(ds) == {ds.directives[i] : i \in 1..Len(ds.directives)}

TargetRank(t) == IF IsSome(t) THEN Len(Unwrap(t)) + 1 ELSE 0

\* The specificity tuple (has span-name filter, number of field predicates,
\* target presence and length); a static directive has only the last part.
SpecTuple(k, d) ==
    IF k = "Statics" THEN <<0, 0, TargetRank(d.target)>>
    ELSE <<IF IsSome(d.in_span) THEN 1 ELSE 0, Len(d.fields), TargetRank(d.target)>>

TupleGe(a, b) ==
    \/ a[1] > b[1]
    \/ a[1] = b[1] /\ a[2] > b[2]
    \/ a[1] = b[1] /\ a[2] = b[2] /\ a[3] >= b[3]

Applies(d, meta) == ~IsSome(d.target) \/ starts_with(meta.target, Unwrap(d.target))

\* C1: max_level equals the maximum level among the current members of the
\* set, and OFF when the set is empty.
C1_MaxLevelIsMemberMax ==
    set.max_level = SetMax({d.level : d \in Members(set)} \cup {OFF})

\* C3: Statics::enabled(metadata) is true exactly when some member whose
\* target is absent or a prefix of the metadata's target has a level greater
\* than or equal to the metadata's level.
C3_EnabledIffApplicableLevel ==
    res.op = "enabled" =>
        (res.val <=> \E d \in Members(set) :
                        Applies(d, res.meta) /\ d.level >= res.meta.level)

C3_Witness ==
    /\ res.op = "enabled"
    /\ res.val
    /\ \E d \in Members(set) : Applies(d, res.meta) /\ d.level = res.meta.level
    /\ \E d \in Members(set) : ~Applies(d, res.meta) /\ d.level > res.meta.level

\* C7: a metadata whose level is strictly greater than the max_level of a
\* Statics set is never enabled by that set.
C7_MaxLevelBoundsEnabled ==
    /\ (res.op = "enabled" /\ res.meta.level > set.max_level) => ~res.val
    /\ kind = "Statics" =>
          \A meta \in StaticMetadata : meta.level > set.max_level => ~enabled(set, meta)

C7_Witness ==
    /\ res.op = "enabled"
    /\ res.meta.level > set.max_level
    /\ ~res.val
    /\ \E d \in Members(set) : Applies(d, res.meta) /\ d.level > OFF

\* C9: directives_for(metadata) yields exactly the members that care about
\* the metadata, each once, and a member yielded earlier is at least as
\* specific as one yielded later.
C9_DirectivesForMostSpecificFirst ==
    res.op = "directives_for" =>
        /\ {res.val[i] : i \in 1..Len(res.val)} =
              {d \in Members(set) : cares_about(kind, d, res.meta)}
        /\ \A i, j \in 1..Len(res.val) : i < j =>
              /\ res.val[i] # res.val[j]
              /\ TupleGe(SpecTuple(kind, res.val[i]), SpecTuple(kind, res.val[j]))

C9_Witness ==
    /\ res.op = "directives_for"
    /\ kind = "Statics"
    /\ Len(res.val) = 2
    /\ IsSome(res.val[2].target)
    /\ res.val[1].target # res.val[2].target

\* C10: no two members of a DirectiveSet share the same specificity tuple.
C10_NoTwoMembersShareTuple ==
    \A i, j \in 1..Len(set.directives) :
        i # j => SpecTuple(kind, set.directives[i]) # SpecTuple(kind, set.directives[j])

\* C4: Dynamics::matcher returns None when no member cares about the
\* metadata; otherwise the applicable directives without field predicates
\* contribute no field matcher and base_level is the highest level among them.
C4_MatcherFieldlessOnlyBaseLevel ==
    res.op = "matcher" =>
        LET app == {d \in Members(set) : DirectiveCaresAbout(d, res.meta)}
            bare == {d \in app : d.fields = <<>>}
        IN IF app = {} THEN res.val = None
           ELSE /\ IsSome(res.val)
                /\ Len(Unwrap(res.val).field_matches) = Cardinality(app \ bare)
                /\ bare # {} =>
                      Unwrap(res.val).base_level = SetMax({d.level : d \in bare})

\* C5: the level reported by a SpanMatcher made from a CallsiteMatcher that
\* Dynamics::matcher returned is never below base_level, and is base_level
\* while no bound field matcher is satisfied.
C5_SpanLevelNotBelowBase ==
    (IsSome(sm) /\ IsSome(Unwrap(sm).lvl)) =>
        LET m == Unwrap(sm).m
            l == Unwrap(Unwrap(sm).lvl)
        IN /\ l >= m.base_level
           /\ (\A i \in 1..Len(m.field_matches) : ~is_matched(m.field_matches[i]))
                 => l = m.base_level

C5_Witness ==
    /\ IsSome(sm)
    /\ IsSome(Unwrap(sm).lvl)
    /\ Unwrap(Unwrap(sm).lvl) > Unwrap(sm).m.base_level
    /\ Len(Unwrap(sm).m.field_matches) = 2
    /\ \E i \in 1..2 : /\ DOMAIN Unwrap(sm).m.field_matches[i].fields # {}
                       /\ is_matched(Unwrap(sm).m.field_matches[i])
    /\ \E i \in 1..2 : ~is_matched(Unwrap(sm).m.field_matches[i])

\* ------------------------------------------------------------ make_tables
TableDirectives == [target : {None, Some(<<97>>), Some(<<98>>)}, in_span : {None, Some("s")},
                    fields : {<<>>, <<FieldX1>>}, level : {ERROR, DEBUG}]

InitTables ==
    /\ kind = "Tables"
    /\ set = DirectiveSetDefault
    /\ nops = 0
    /\ res = NoRes
    /\ sm = None
    /\ inp \in SeqsUpTo(TableDirectives, MaxInput)

MakeTables ==
    /\ res = NoRes
    /\ res' = [op |-> "make_tables", val |-> make_tables(inp)]
    /\ UNCHANGED <<kind, set, nops, sm, inp>>

NextTables == MakeTables

SpecTables == InitTables /\ [][NextTables]_vars

IsDynamicInput(d) == IsSome(d.in_span) \/ Len(d.fields) >= 1

Reduced(d) == [target |-> d.target, level |-> d.level]

InTable(d, tables) ==
    IF IsDynamicInput(d) THEN d \in Members(tables.dyns)
    ELSE Reduced(d) \in Members(tables.stats)

\* C2 as stated: every input directive with a span-name filter or a field
\* predicate is a member of the dynamic table and every other input directive
\* is in the static table as its (target, level) pair.
C2_EveryInputInItsTable ==
    res.op = "make_tables" => \A i \in 1..Len(inp) : InTable(inp[i], res.val)

FirstOfTuple(i) ==
    \A j \in 1..(i - 1) : SpecTuple("Dynamics", inp[j]) # SpecTuple("Dynamics", inp[i])

\* C2 amended: every input directive that is the first of its specificity
\* tuple in the input is in the table of its kind (dynamic: itself, static:
\* its (target, level) pair); every other input directive is represented there
\* only by the earlier directive of its tuple, and the tables hold nothing else.
C2_FirstOfEachTupleInItsTable ==
    res.op = "make_tables" =>
        /\ \A i \in 1..Len(inp) : FirstOfTuple(i) => InTable(inp[i], res.val)
        /\ Members(res.val.dyns) =
              {inp[i] : i \in {j \in 1..Len(inp) : FirstOfTuple(j) /\ IsDynamicInput(inp[j])}}
        /\ Members(res.val.stats) =
              {Reduced(inp[i]) : i \in {j \in 1..Len(inp) :
                                          FirstOfTuple(j) /\ ~IsDynamicInput(inp[j])}}

C2_Witness ==
    /\ res.op = "make_tables"
    /\ Len(inp) = 3
    /\ IsDynamicInput(inp[1]) /\ ~IsDynamicInput(inp[2]) /\ IsDynamicInput(inp[3])
    /\ inp[1] # inp[3]
    /\ ~FirstOfTuple(3)
    /\ Len(res.val.dyns.directives) = 1
    /\ Len(res.val.stats.directives) = 1

\* ------------------------------------------------------- Directive order
InitOrd ==
    /\ kind = "Ord"
    /\ set = DirectiveSetDefault
    /\ nops = 0
    /\ res = NoRes
    /\ sm = None
    /\ inp \in [1..3 -> Directives]

Compare ==
    /\ res = NoRes
    /\ res' = [op |-> "cmp",
               ab |-> DirectiveCmp(inp[1], inp[2]), ba |-> DirectiveCmp(inp[2], inp[1]),
               bc |-> DirectiveCmp(inp[2], inp[3]), ac |-> DirectiveCmp(inp[1], inp[3])]
    /\ UNCHANGED <<kind, set, nops, sm, inp>>

NextOrd == Compare

SpecOrd == InitOrd /\ [][NextOrd]_vars

\* C6: the comparison is a total order on the specificity tuple: exactly one
\* of A<B, A=B, A>B holds, A<B and B<C imply A<C, a directive with a span
\* filter is greater than any directive without one, and directives with
\* identical tuples compare equal.
C6_TotalOrderOnTuple ==
    res.op = "cmp" =>
        LET ta == SpecTuple("Dynamics", inp[1])
            tb == SpecTuple("Dynamics", inp[2])
        IN /\ res.ab \in {"Less", "Equal", "Greater"}
           /\ (res.ab = "Less") <=> (res.ba = "Greater")
           /\ (res.ab = "Greater") <=> (res.ba = "Less")
           /\ (res.ab = "Equal") <=> (res.ba = "Equal")
           /\ (res.ab = "Less" /\ res.bc = "Less") => res.ac = "Less"
           /\ (res.ab = "Equal" /\ res.bc = "Equal") => res.ac = "Equal"
           /\ (IsSome(inp[1].in_span) /\ ~IsSome(inp[2].in_span)) => res.ab = "Greater"
           /\ (ta = tb) <=> (res.ab = "Equal")
           /\ (res.ab = "Greater") <=> (TupleGe(ta, tb) /\ ta # tb)

C6_Witness ==
    /\ res.op = "cmp"
    /\ IsSome(inp[1].in_span) /\ ~IsSome(inp[2].in_span)
    /\ Len(inp[1].fields) < Len(inp[2].fields)
    /\ TargetRank(inp[1].target) < TargetRank(inp[2].target)
    /\ res.ab = "Greater"
    /\ res.bc = "Less" /\ res.ac = "Greater"

\* ----------------------------------------------------- Directive::from_str
\* A rule string is kept as its lexical parts: a head of word tokens
\* ([\w:]+), bracketed span tokens and characters that belong to neither,
\* then an optional '=' and the text after it.  A span token carries the
\* parts SPAN_PART_RE and FIELD_FILTER_RE capture; "bad" marks a field filter
\* that field::Match::from_str rejects.
LevelKeywordRE == {"trace", "TRACE", "debug", "DEBUG", "info", "INFO", "warn", "WARN",
                   "error", "ERROR", "off", "OFF0", "OFF1", "OFF2", "OFF3", "OFF4", "OFF5"}

LevelFromStr(t) ==
    IF t \in {"trace", "TRACE", "Trace"} THEN Some(TRACE)
    ELSE IF t \in {"debug", "DEBUG"} THEN Some(DEBUG)
    ELSE IF t \in {"info", "INFO", "Info"} THEN Some(INFO)
    ELSE IF t \in {"warn", "WARN"} THEN Some(WARN)
    ELSE IF t \in {"error", "ERROR"} THEN Some(ERROR)
    ELSE IF t \in {"off", "OFF", "OFF0", "OFF1", "OFF2", "OFF3", "OFF4", "OFF5"} THEN Some(OFF)
    ELSE None

Word(t) == [tok |-> "word", text |-> t]
Span(name, fields) == [tok |-> "span", name |-> name, fields |-> fields]
Junk == [tok |-> "junk"]

FieldText(name, value, bad) == [name |-> name, value |-> value, bad |-> bad]

HeadTokens ==
    {Word("foo"), Word("info"), Word("OFF"), Junk,
     Span(None, None), Span(Some("s"), None),
     Span(Some("s"), Some(<<FieldText("x", Some(1), FALSE)>>)),
     Span(None, Some(<<FieldText("x", Some(1), FALSE), FieldText("y", None, TRUE)>>))}

Suffixes == {"info", "DEBUG", "OFF3", "OFF", "Info", "bogus"}

Rules ==
    {r \in [head : SeqsUpTo(HeadTokens, 2), eq : BOOLEAN,
            suffix : {None} \cup {Some(t) : t \in Suffixes}] :
        /\ (~r.eq => r.suffix = None)
        /\ ~(Len(r.head) = 2 /\ r.head[1].tok = "word" /\ r.head[2].tok = "word")}

ErrOther == [ok |-> FALSE, kind |-> "Other"]
ErrField == [ok |-> FALSE, kind |-> "Field"]
ErrLevel == [ok |-> FALSE, kind |-> "Level"]
Ok(d) == [ok |-> TRUE, val |-> d]

\* DIRECTIVE_RE.captures(from)
DirectiveRE(r) ==
    IF Len(r.head) = 1 /\ r.head[1].tok = "word" /\ ~r.eq
       /\ r.head[1].text \in LevelKeywordRE
    THEN Some([global_level |-> Some(r.head[1].text), target |-> None, span |-> None,
               level |-> None])
    ELSE IF /\ Len(r.head) \in {1, 2}
            /\ \A i \in 1..Len(r.head) : r.head[i].tok \in {"word", "span"}
            /\ (IsSome(r.suffix) => Unwrap(r.suffix) \in LevelKeywordRE)
         THEN LET ws == {i \in 1..Len(r.head) : r.head[i].tok = "word"}
                  ss == {i \in 1..Len(r.head) : r.head[i].tok = "span"}
              IN Some([global_level |-> None,
                       target |-> IF ws = {} THEN None ELSE Some(r.head[SetMax(ws)].text),
                       span |-> IF ss = {} THEN None ELSE Some(r.head[SetMax(ss)]),
                       level |-> r.suffix])
         ELSE None

AndThenLevel(o) == IF IsSome(o) THEN LevelFromStr(Unwrap(o)) ELSE None

ParseFields(fs) ==
    IF \E i \in 1..Len(fs) : fs[i].bad THEN [ok |-> FALSE]
    ELSE [ok |-> TRUE,
          val |-> [i \in 1..Len(fs) |-> [name |-> fs[i].name, value |-> fs[i].value]]]

from_str(from) ==
    LET caps == DirectiveRE(from) IN
    IF ~IsSome(caps) THEN ErrOther
    ELSE LET c == Unwrap(caps)
             global == AndThenLevel(c.global_level)
         IN IF IsSome(global)
            THEN Ok([DirectiveDefault EXCEPT !.level = Unwrap(global)])
            ELSE LET target == IF IsSome(c.target) /\ ~IsSome(LevelFromStr(Unwrap(c.target)))
                               THEN c.target ELSE None
                     in_span == IF IsSome(c.span) THEN Unwrap(c.span).name ELSE None
                     fields == IF IsSome(c.span) /\ IsSome(Unwrap(c.span).fields)
                               THEN ParseFields(Unwrap(Unwrap(c.span).fields))
                               ELSE [ok |-> TRUE, val |-> <<>>]
                     lvl == UnwrapOr(AndThenLevel(c.level), ERROR)
                 IN IF fields.ok
                    THEN Ok([level |-> lvl, target |-> target, in_span |-> in_span,
                             fields |-> fields.val])
                    ELSE ErrField

InitParse ==
    /\ kind = "Parse"
    /\ set = DirectiveSetDefault
    /\ nops = 0
    /\ res = NoRes
    /\ sm = None
    /\ inp \in Rules

FromStr ==
    /\ res = NoRes
    /\ res' = [op |-> "from_str", val |-> from_str(inp)]
    /\ UNCHANGED <<kind, set, nops, sm, inp>>

NextParse == FromStr

SpecParse == InitParse /\ [][NextParse]_vars

\* C8: a rule whose text after '=' is a malformed level keyword fails with a
\* ParseError of the Level kind.
C8_MalformedLevelIsLevelError ==
    (res.op = "from_str" /\ inp.eq /\ IsSome(inp.suffix)
        /\ ~IsSome(LevelFromStr(Unwrap(inp.suffix))))
    => res.val = ErrLevel

====
